---- MODULE Spec2Model ----
(***************************************************************************)
(* Word-level model of the two allocators of this repository:              *)
(*   variant "A"  mm-explicit list/mm.c    (one free list, header+footer)  *)
(*   variant "B"  mm-segregated list/mm.c  (24 lists, footer elided)       *)
(* The heap is an array of 4-byte words; addresses are byte addresses.     *)
(* Every C function is an operator from a machine record                   *)
(*   h = [mem, brk, hl (heap_listp), fl (free_listp), st]                  *)
(* to the machine record after the call.  A dereference outside the heap   *)
(* or of a misaligned unsigned int pointer is undefined behaviour: the     *)
(* machine goes to st = "fault" and nothing more is known about it.  A     *)
(* free-list walk that revisits a node never returns: st = "hang".         *)
(* Words are kept as 32-bit patterns read as signed integers; a negative   *)
(* word stands for the unsigned value 2^32 larger, which as a size or an   *)
(* offset always leads outside the modelled heap (Huge, Wild).             *)
(***************************************************************************)
EXTENDS Integers, Sequences, FiniteSets, TLC

VARIABLES variant, cap, fresh, mem, brk, heap_listp, free_listp, status, live, last,
          reinit, steps

vars == <<variant, cap, fresh, mem, brk, heap_listp, free_listp, status, live, last,
          reinit, steps>>

(***************************************************************************)
(* Program constants                                                       *)
(***************************************************************************)
WSIZE == 4
DSIZE == 8
LIST_NUM == 24
NULL == 0

\* CHUNKSIZE as the macro body is written: MAX(asize,CHUNKSIZE) parenthesises it.
CHUNKSIZE == IF variant = "A" THEN 2^9 + 2^8 + 2^7 ELSE 2^8 - 2^5

\* CHUNKSIZE/WSIZE in mm_init: the macro body is not parenthesised, so the
\* division binds to its last term only.
InitWords == IF variant = "A" THEN 2^9 + 2^8 + (2^7 \div WSIZE) ELSE 2^8 - (2^5 \div WSIZE)

\* number of words mm_init asks for: 6*WSIZE (A), 4*WSIZE+LIST_NUM*WSIZE (B)
PreambleBytes == IF variant = "A" THEN 6 * WSIZE ELSE 4 * WSIZE + LIST_NUM * WSIZE

(***************************************************************************)
(* The substrate (memlib): first address, growth, rejection.               *)
(***************************************************************************)
HeapLo == 4096

Huge == 2^29
Wild == 0 - Huge

\* mem_sbrk(incr): grows the heap by incr bytes unless that exceeds the
\* capacity; the new words hold whatever the region held before (fresh).
mem_sbrk(h, incr) ==
    IF h.brk + incr > cap
    THEN [h |-> h, p |-> -1]
    ELSE [h |-> [h EXCEPT !.brk = h.brk + incr,
                          !.mem = [i \in 0..(((h.brk + incr) \div 4) - 1) |->
                                      IF i < h.brk \div 4 THEN h.mem[i] ELSE fresh]],
          p |-> HeapLo + h.brk]

(***************************************************************************)
(* Macros                                                                  *)
(***************************************************************************)
\* a local variable: Let([x \in {e} |-> body]) is body with x bound to the
\* value of e, computed once
Let(f) == f[CHOOSE v \in DOMAIN f : TRUE]

Valid(h, a) == a >= HeapLo /\ a % 4 = 0 /\ a + 4 <= HeapLo + h.brk

Fault(h) == IF h.st = "ok" THEN [h EXCEPT !.st = "fault"] ELSE h

\* the reads of the addresses in S (each a dereference of an unsigned int *)
Chk(h, S) == IF \A a \in S : Valid(h, a) THEN h ELSE Fault(h)

GET(h, p) == IF Valid(h, p) THEN h.mem[(p - HeapLo) \div 4] ELSE 0

PUT(h, p, val) ==
    IF h.st # "ok" THEN h
    ELSE IF ~Valid(h, p) THEN Fault(h)
    ELSE [h EXCEPT !.mem[(p - HeapLo) \div 4] = val]

\* size is a multiple of 8 wherever the code packs, so | is +
PACK(size, alloc) == size + alloc

SizeBits(w) == IF w < 0 THEN Huge ELSE w - (w % 8)
AllocBit(w) == w % 2
Bit1(w) == (w \div 2) % 2

GET_SIZE(h, p) == SizeBits(GET(h, p))
GET_ALLOC(h, p) == AllocBit(GET(h, p))

HDRP(bp) == bp - WSIZE
FTRP(h, bp) == bp + GET_SIZE(h, HDRP(bp)) - DSIZE
NEXT_BLKP(h, bp) == bp + GET_SIZE(h, bp - WSIZE)
PREV_BLKP(h, bp) == bp - GET_SIZE(h, bp - DSIZE)

PTR_OFF(h, p, ptr) == PUT(h, p, ptr - h.hl)
OFF_PTR(h, p) == IF GET(h, p) < 0 THEN Wild ELSE GET(h, p) + h.hl

\* variant B: keep the former second bit
PUT_HD(h, p, val) == PUT(h, p, 2 * Bit1(GET(h, p)) + val)

\* the header write of a block: PUT in A, PUT_HD in B
PutHdr(h, p, val) == IF variant = "A" THEN PUT(h, p, val) ELSE PUT_HD(h, p, val)

PREV_ALLOC(h, bp) ==
    Let([h0 \in {Chk(h, {HDRP(bp)})} |->
    Let([p \in {HDRP(NEXT_BLKP(h0, bp))} |->
        PUT(h0, p, IF Bit1(GET(h0, p)) = 1 THEN GET(h0, p) ELSE GET(h0, p) + 2)])])

PREV_UNALLOC(h, bp) ==
    Let([h0 \in {Chk(h, {HDRP(bp)})} |->
    Let([p \in {HDRP(NEXT_BLKP(h0, bp))} |->
        PUT(h0, p, IF Bit1(GET(h0, p)) = 1 THEN GET(h0, p) - 2 ELSE GET(h0, p))])])

GET_PREV_ALLOC(h, bp) == 2 * Bit1(GET(h, HDRP(bp)))

(***************************************************************************)
(* Free lists                                                              *)
(***************************************************************************)
\* LIST1 .. LIST19, the bounds list_entry compares with, in its order
ListBounds == <<2^4, 24, 48, 2^7, 2^8, 2^9, 2^10, 2^11, 2^12, 9200, 12000, 16000,
                20000, 24000, 28000, 32000, 40000, 2^15, 2^16>>

\* LIST1 .. LIST23
AllBounds == ListBounds \o <<2^17, 2^18, 2^19, 2^20>>

list_entry(size) ==
    IF \E i \in 1..Len(ListBounds) : size <= ListBounds[i]
    THEN (CHOOSE i \in 1..Len(ListBounds) :
              /\ size <= ListBounds[i]
              /\ \A j \in 1..(i - 1) : size > ListBounds[j]) - 1
    ELSE LIST_NUM - 1

\* the head word a block belongs to: free_listp (A), free_listp + list_entry(size) (B)
ListHead(h, bp) ==
    IF variant = "A" THEN h.fl
    ELSE h.fl + WSIZE * list_entry(GET_SIZE(h, HDRP(bp)))

freelist_insert(h, bp) ==
    Let([list \in {ListHead(h, bp)} |->
    Let([h0 \in {Chk(h, IF variant = "A" THEN {list} ELSE {HDRP(bp), list})} |->
        IF GET(h0, list) = 0
        THEN Let([h1 \in {PTR_OFF(h0, list, bp)} |->
             Let([h2 \in {PUT(h1, bp, 0)} |->
                 PUT(h2, bp + WSIZE, 0)])])
        ELSE Let([h1 \in {PUT(h0, bp, GET(h0, list))} |->
             Let([h2 \in {PUT(h1, bp + WSIZE, 0)} |->
             Let([h3 \in {PTR_OFF(h2, OFF_PTR(h2, list) + WSIZE, bp)} |->
                 PTR_OFF(h3, list, bp)])])])])])

\* freelist_delete whose first test looks at the next offset only
freelist_delete_overlap(h, bp) ==
    Let([list \in {ListHead(h, bp)} |->
    Let([h0 \in {Chk(h, (IF variant = "A" THEN {} ELSE {HDRP(bp)}) \cup {bp, bp + WSIZE})} |->
    Let([s1 \in {IF GET(h0, bp) = 0
        THEN PUT(h0, list, 0)
        ELSE h0} |->
    Let([s2 \in {IF GET(s1, bp) = 0 /\ GET(s1, bp + WSIZE) # 0
        THEN PUT(s1, OFF_PTR(s1, bp + WSIZE), 0)
        ELSE s1} |->
    Let([s3 \in {IF GET(s2, bp) # 0 /\ GET(s2, bp + WSIZE) = 0
        THEN Let([t \in {PUT(s2, OFF_PTR(s2, bp) + WSIZE, 0)} |->
                 PUT(t, list, GET(t, bp))])
        ELSE s2} |->
        IF GET(s3, bp) # 0 /\ GET(s3, bp + WSIZE) # 0
        THEN Let([t \in {PUT(s3, OFF_PTR(s3, bp) + WSIZE, GET(s3, bp + WSIZE))} |->
                 PUT(t, OFF_PTR(t, bp + WSIZE), GET(t, bp))])
        ELSE s3])])])])])

\* four independent if statements, each testing the words as they are then
freelist_delete(h, bp) ==
    Let([list \in {ListHead(h, bp)} |->
    Let([h0 \in {Chk(h, (IF variant = "A" THEN {} ELSE {HDRP(bp)}) \cup {bp, bp + WSIZE})} |->
    Let([s1 \in {IF GET(h0, bp) = 0 /\ GET(h0, bp + WSIZE) = 0
        THEN PUT(h0, list, 0)
        ELSE h0} |->
    Let([s2 \in {IF GET(s1, bp) = 0 /\ GET(s1, bp + WSIZE) # 0
        THEN PUT(s1, OFF_PTR(s1, bp + WSIZE), 0)
        ELSE s1} |->
    Let([s3 \in {IF GET(s2, bp) # 0 /\ GET(s2, bp + WSIZE) = 0
        THEN Let([t \in {PUT(s2, OFF_PTR(s2, bp) + WSIZE, 0)} |->
                 PUT(t, list, GET(t, bp))])
        ELSE s2} |->
        IF GET(s3, bp) # 0 /\ GET(s3, bp + WSIZE) # 0
        THEN Let([t \in {PUT(s3, OFF_PTR(s3, bp) + WSIZE, GET(s3, bp + WSIZE))} |->
                 PUT(t, OFF_PTR(t, bp + WSIZE), GET(t, bp))])
        ELSE s3])])])])])

(***************************************************************************)
(* coalesce: returns [h, bp]                                               *)
(***************************************************************************)
\* Case 1: both neighbours allocated
coalesce1(h0, bp) ==
    [h |-> freelist_insert(h0, bp), bp |-> bp]

\* Case 2: the next block is free
coalesce2(h0, bp, size) ==
    Let([sz \in {size + GET_SIZE(h0, HDRP(NEXT_BLKP(h0, bp)))} |->
    Let([h1 \in {PutHdr(h0, HDRP(bp), PACK(sz, 0))} |->
    Let([h2 \in {PUT(h1, FTRP(h1, bp), PACK(sz, 0))} |->
        [h |-> freelist_insert(h2, bp), bp |-> bp]])])])

\* Case 3: the previous block is free
coalesce3(h0, bp, size) ==
    Let([g0 \in {Chk(h0, {bp - DSIZE})} |->
    Let([h1 \in {freelist_delete(g0, PREV_BLKP(g0, bp))} |->
    Let([g1 \in {Chk(h1, {bp - DSIZE, HDRP(PREV_BLKP(h1, bp)), HDRP(bp)})} |->
    Let([sz \in {size + GET_SIZE(g1, HDRP(PREV_BLKP(g1, bp)))} |->
    Let([h2 \in {PUT(g1, FTRP(g1, bp), PACK(sz, 0))} |->
    Let([g2 \in {Chk(h2, {bp - DSIZE})} |->
    Let([h3 \in {PutHdr(g2, HDRP(PREV_BLKP(g2, bp)), PACK(sz, 0))} |->
    Let([g3 \in {Chk(h3, {bp - DSIZE})} |->
    Let([nbp \in {PREV_BLKP(g3, bp)} |->
        [h |-> freelist_insert(g3, nbp), bp |-> nbp]])])])])])])])])])

\* Case 4: both neighbours free
coalesce4(h0, bp, size) ==
    Let([g0 \in {Chk(h0, {bp - DSIZE})} |->
    Let([h1 \in {freelist_delete(g0, PREV_BLKP(g0, bp))} |->
    Let([g1 \in {Chk(h1, {HDRP(bp)})} |->
    Let([h2 \in {freelist_delete(g1, NEXT_BLKP(g1, bp))} |->
    Let([g2 \in {Chk(h2, {bp - DSIZE, HDRP(bp), HDRP(PREV_BLKP(h2, bp)),
                 HDRP(NEXT_BLKP(h2, bp)), FTRP(h2, NEXT_BLKP(h2, bp))})} |->
    Let([sz \in {size + GET_SIZE(g2, HDRP(PREV_BLKP(g2, bp)))
             + GET_SIZE(g2, FTRP(g2, NEXT_BLKP(g2, bp)))} |->
    Let([h3 \in {PutHdr(g2, HDRP(PREV_BLKP(g2, bp)), PACK(sz, 0))} |->
    Let([g3 \in {Chk(h3, {HDRP(bp), HDRP(NEXT_BLKP(h3, bp))})} |->
    Let([h4 \in {PUT(g3, FTRP(g3, NEXT_BLKP(g3, bp)), PACK(sz, 0))} |->
    Let([g4 \in {Chk(h4, {bp - DSIZE})} |->
    Let([nbp \in {PREV_BLKP(g4, bp)} |->
        [h |-> freelist_insert(g4, nbp), bp |-> nbp]])])])])])])])])])])])

\* coalesce that takes case 1 whatever the neighbours are
coalesce_apart(h, bp) ==
    coalesce1(h, bp)

coalesce(h, bp) ==
    Let([h0 \in {Chk(h, (IF variant = "A"
                THEN {bp - DSIZE, HDRP(PREV_BLKP(h, bp)), FTRP(h, PREV_BLKP(h, bp))}
                ELSE {}) \cup {HDRP(bp), HDRP(NEXT_BLKP(h, bp))})} |->
    Let([prev_alloc \in {IF variant = "A"
        THEN GET_ALLOC(h, FTRP(h, PREV_BLKP(h, bp)))
        ELSE GET_PREV_ALLOC(h, bp)} |->
    Let([next_alloc \in {GET_ALLOC(h, HDRP(NEXT_BLKP(h, bp)))} |->
    Let([size \in {GET_SIZE(h, HDRP(bp))} |->
        IF h0.st # "ok" THEN [h |-> h0, bp |-> bp]
        ELSE IF prev_alloc # 0 /\ next_alloc # 0 THEN coalesce1(h0, bp)
        ELSE IF prev_alloc # 0 /\ next_alloc = 0 THEN coalesce2(h0, bp, size)
        ELSE IF prev_alloc = 0 /\ next_alloc # 0 THEN coalesce3(h0, bp, size)
        ELSE coalesce4(h0, bp, size)])])])])

(***************************************************************************)
(* extend_heap: returns [h, bp], bp = NULL when the substrate rejects      *)
(***************************************************************************)
extend_heap(h, words) ==
    Let([size \in {IF words % 2 = 1 THEN (words + 1) * WSIZE ELSE words * WSIZE} |->
    Let([r \in {mem_sbrk(h, size)} |->
        IF r.p = -1 THEN [h |-> r.h, bp |-> NULL]
        ELSE Let([h1 \in {PutHdr(r.h, HDRP(r.p), PACK(size, 0))} |->
             Let([h2 \in {PUT(h1, FTRP(h1, r.p), PACK(size, 0))} |->
             Let([h3 \in {PutHdr(h2, HDRP(NEXT_BLKP(h2, r.p)), PACK(0, 1))} |->
                 coalesce(h3, r.p)])])])])])

(***************************************************************************)
(* place                                                                   *)
(***************************************************************************)
\* the block is split: its remainder becomes a free block
place_split(h1, bp, asize, csize) ==
    Let([h2 \in {PutHdr(h1, HDRP(bp), PACK(asize, 1))} |->
    Let([h3 \in {IF variant = "A"
        THEN PUT(h2, FTRP(h2, bp), PACK(asize, 1))
        ELSE PREV_ALLOC(h2, bp)} |->
    Let([nb \in {NEXT_BLKP(h3, bp)} |->
    Let([h4 \in {PutHdr(h3, HDRP(nb), PACK(csize - asize, 0))} |->
    Let([h5 \in {PUT(h4, FTRP(h4, nb), PACK(csize - asize, 0))} |->
    Let([h6 \in {IF variant = "A" THEN h5 ELSE PREV_UNALLOC(h5, nb)} |->
        freelist_insert(h6, nb)])])])])])])

\* the block is taken whole
place_whole(h1, bp, csize) ==
    Let([h2 \in {PutHdr(h1, HDRP(bp), PACK(csize, 1))} |->
        IF variant = "A"
        THEN PUT(h2, FTRP(h2, bp), PACK(csize, 1))
        ELSE PREV_ALLOC(h2, bp)])

place(h, bp, asize) ==
    Let([h0 \in {Chk(h, {HDRP(bp)})} |->
    Let([csize \in {GET_SIZE(h0, HDRP(bp))} |->
    Let([h1 \in {freelist_delete(h0, bp)} |->
        IF csize - asize >= 2 * DSIZE \/ csize < asize      \* size_t: csize < asize wraps
        THEN place_split(h1, bp, asize, csize)
        ELSE place_whole(h1, bp, csize)])])])

(***************************************************************************)
(* find_fit: returns [k, p], k in "ptr", "null", "hang", "fault"           *)
(***************************************************************************)
RECURSIVE find_walk(_, _, _, _)
\* the while (bp) loop; the words do not change during the walk, so a node
\* seen before means the loop never ends
find_walk(h, bp, asize, seen) ==
    IF bp = 0 THEN [k |-> "null", p |-> 0]
    ELSE IF bp \in seen THEN [k |-> "hang", p |-> 0]
    ELSE IF ~Valid(h, HDRP(bp)) THEN [k |-> "fault", p |-> 0]
    ELSE IF GET_SIZE(h, HDRP(bp)) >= asize THEN [k |-> "ptr", p |-> bp]
    ELSE IF ~Valid(h, bp) THEN [k |-> "fault", p |-> 0]
    ELSE IF GET(h, bp) = 0 THEN [k |-> "null", p |-> 0]
    ELSE find_walk(h, OFF_PTR(h, bp), asize, seen \cup {bp})

find_block(h, list, asize) ==
    IF ~Valid(h, list) THEN [k |-> "fault", p |-> 0]
    ELSE IF GET(h, list) = 0 THEN [k |-> "null", p |-> 0]
    ELSE find_walk(h, OFF_PTR(h, list), asize, {})

RECURSIVE find_from(_, _, _)
\* variant B: while (entry < LIST_NUM)
find_from(h, asize, entry) ==
    IF entry >= LIST_NUM THEN [k |-> "null", p |-> 0]
    ELSE IF ~Valid(h, h.fl + WSIZE * entry) THEN [k |-> "fault", p |-> 0]
    ELSE IF GET(h, h.fl + WSIZE * entry) = 0 THEN find_from(h, asize, entry + 1)
    ELSE Let([r \in {find_block(h, h.fl + WSIZE * entry, asize)} |->
             IF r.k = "null" THEN find_from(h, asize, entry + 1) ELSE r])

find_fit(h, asize) ==
    IF variant = "A" THEN find_block(h, h.fl, asize)
    ELSE find_from(h, asize, list_entry(asize))

(***************************************************************************)
(* mm_init: returns [h, rc]                                                *)
(***************************************************************************)
RECURSIVE ZeroHeads(_, _)
\* for (i = 0; i < LIST_NUM; i++) PUT(free_listp + i*WSIZE, 0)
ZeroHeads(h, i) ==
    IF i >= LIST_NUM THEN h ELSE ZeroHeads(PUT(h, h.fl + i * WSIZE, 0), i + 1)

\* the words mm_init writes into the region p it obtained, and the two bases
InitLayout(h0, p) ==
    IF variant = "A"
    THEN Let([a1 \in {PUT(h0, p, 0)} |->
         Let([a2 \in {PUT(a1, p + 1 * WSIZE, 0)} |->
         Let([a3 \in {PUT(a2, p + 3 * WSIZE, PACK(DSIZE, 1))} |->
         Let([a4 \in {PUT(a3, p + 4 * WSIZE, PACK(DSIZE, 1))} |->
         Let([a5 \in {PUT(a4, p + 5 * WSIZE, PACK(0, 1))} |->
             [a5 EXCEPT !.fl = p + 1 * WSIZE, !.hl = p + 4 * WSIZE]])])])])])
    ELSE Let([b1 \in {PUT(h0, p, 0)} |->
         Let([b2 \in {PUT(b1, p + (LIST_NUM + 1) * WSIZE, PACK(DSIZE, 1))} |->
         Let([b3 \in {PUT(b2, p + (LIST_NUM + 2) * WSIZE, PACK(DSIZE, 1))} |->
         Let([b4 \in {PUT(b3, p + (LIST_NUM + 3) * WSIZE, PACK(0, 1))} |->
         Let([b5 \in {[b4 EXCEPT !.fl = p + 1 * WSIZE,
                        !.hl = p + (LIST_NUM + 2) * WSIZE]} |->
         Let([b6 \in {PREV_ALLOC(b5, b5.hl)} |->
             ZeroHeads(b6, 0)])])])])])])

\* mm_init that does nothing once heap_listp is set
mm_init_once(h) ==
    IF h.hl # 0 THEN [h |-> h, rc |-> 0]
    ELSE Let([r \in {mem_sbrk(h, PreambleBytes)} |->
         Let([h0 \in {[r.h EXCEPT !.hl = r.p]} |->
             IF r.p = -1 THEN [h |-> h0, rc |-> -1]
             ELSE Let([e \in {extend_heap(InitLayout(h0, r.p), InitWords)} |->
                      [h |-> e.h, rc |-> IF e.bp = NULL THEN -1 ELSE 0]])])])

mm_init(h) ==
    Let([r \in {mem_sbrk(h, PreambleBytes)} |->
    Let([h0 \in {[r.h EXCEPT !.hl = r.p]} |->         \* assigned inside the condition
        IF r.p = -1 THEN [h |-> h0, rc |-> -1]
        ELSE Let([e \in {extend_heap(InitLayout(h0, r.p), InitWords)} |->
                 [h |-> e.h, rc |-> IF e.bp = NULL THEN -1 ELSE 0]])])])

(***************************************************************************)
(* mm_malloc: returns [h, p]; p is meaningful only when h.st = "ok"        *)
(***************************************************************************)
\* x < y between two values of type size_t; a negative number k stands for
\* the value 2^w + k, w the width of size_t
ULT(x, y) == IF (x < 0) = (y < 0) THEN x < y ELSE y < 0

\* the adjusted block size with two doublewords of overhead
AdjSize_two(size) ==
    IF ~ULT(DSIZE, size) THEN 2 * DSIZE
    ELSE Let([sum \in {size + 2 * DSIZE + (DSIZE - 1)} |-> sum - (sum % DSIZE)])

\* the adjusted block size, in size_t arithmetic: size + overhead + 7 is taken
\* modulo 2^w (a sum of a negative size that reaches 0 has wrapped), and the
\* division by 8 followed by the multiplication clears the low three bits
AdjSize(size) ==
    IF ~ULT(DSIZE, size) THEN 2 * DSIZE
    ELSE Let([sum \in {size + (IF variant = "A" THEN DSIZE ELSE WSIZE) + (DSIZE - 1)} |->
             sum - (sum % DSIZE)])

MAX(x, y) == IF x > y THEN x ELSE y

\* no fit found: get more memory and place the block
malloc_extend(h1, asize) ==
    Let([e \in {extend_heap(h1, MAX(asize, CHUNKSIZE) \div WSIZE)} |->
        IF e.bp = NULL THEN [h |-> e.h, p |-> NULL]
        ELSE [h |-> place(e.h, e.bp, asize), p |-> e.bp]])

mm_malloc(h, size) ==
    Let([h1 \in {IF h.hl = 0 THEN mm_init(h).h ELSE h} |->     \* return value ignored
    Let([asize \in {AdjSize(size)} |->
        IF size = 0 THEN [h |-> h1, p |-> NULL]
        ELSE Let([ff \in {find_fit(h1, asize)} |->
                 IF ff.k = "ptr" THEN [h |-> place(h1, ff.p, asize), p |-> ff.p]
                 ELSE IF ff.k = "hang" THEN [h |-> [h1 EXCEPT !.st = "hang"], p |-> NULL]
                 ELSE IF ff.k = "fault" THEN [h |-> Fault(h1), p |-> NULL]
                 ELSE malloc_extend(h1, asize)])])])

(***************************************************************************)
(* mm_free                                                                 *)
(***************************************************************************)
mm_free(h, bp) ==
    IF bp = 0 THEN h
    ELSE Let([h0 \in {Chk(h, {HDRP(bp)})} |->
         Let([size \in {GET_SIZE(h0, HDRP(bp))} |->
         Let([h1 \in {IF h0.hl = 0 THEN mm_init(h0).h ELSE h0} |->
         Let([h2 \in {PutHdr(h1, HDRP(bp), PACK(size, 0))} |->
         Let([h3 \in {PUT(h2, FTRP(h2, bp), PACK(size, 0))} |->
         Let([h4 \in {IF variant = "A" THEN h3 ELSE PREV_UNALLOC(h3, bp)} |->
             coalesce(h4, bp).h])])])])])])

(***************************************************************************)
(* mm_realloc: returns [h, p, copied]                                      *)
(***************************************************************************)
\* memcpy of n bytes, little-endian words; the last word may be copied in part.
\* Copying between overlapping, different ranges is undefined.
memcpy(h, dst, src, n) ==
    LET full == n \div 4
        rest == n % 4
        nw   == (n + 3) \div 4
        ok   == \A k \in 0..(nw - 1) : Valid(h, src + 4 * k) /\ Valid(h, dst + 4 * k)
        d0   == (dst - HeapLo) \div 4
        s0   == (src - HeapLo) \div 4
    IN IF h.st # "ok" \/ n = 0 \/ dst = src THEN (IF ok THEN h ELSE Fault(h))
       ELSE IF ~ok \/ (dst < src + n /\ src < dst + n) THEN Fault(h)
       ELSE [h EXCEPT !.mem = [i \in DOMAIN h.mem |->
                IF i >= d0 /\ i < d0 + full THEN h.mem[s0 + (i - d0)]
                ELSE IF i = d0 + full /\ rest > 0
                     THEN (h.mem[s0 + full] % (256 ^ rest))
                          + (h.mem[i] - (h.mem[i] % (256 ^ rest)))
                     ELSE h.mem[i]]]

\* copy the old data, free the old block
realloc_copy(h, ptr, size, newptr) ==
    Let([h0 \in {Chk(h, {HDRP(ptr)})} |->
    Let([hs \in {GET_SIZE(h0, HDRP(ptr))} |->
    Let([oldsize \in {IF size < hs THEN size ELSE hs} |->
    Let([h1 \in {memcpy(h0, newptr, ptr, oldsize)} |->
        [h |-> mm_free(h1, ptr), p |-> newptr, copied |-> oldsize]])])])])

\* mm_realloc that gives the old block up when the new one cannot be had
mm_realloc_giving_up(h, ptr, size) ==
    IF size = 0 THEN [h |-> mm_free(h, ptr), p |-> NULL, copied |-> 0]
    ELSE Let([m \in {mm_malloc(h, size)} |->
             IF ptr = NULL THEN [h |-> m.h, p |-> m.p, copied |-> 0]
             ELSE IF m.h.st # "ok" THEN [h |-> m.h, p |-> NULL, copied |-> 0]
             ELSE IF m.p = NULL THEN [h |-> mm_free(m.h, ptr), p |-> NULL, copied |-> 0]
             ELSE realloc_copy(m.h, ptr, size, m.p)])

mm_realloc(h, ptr, size) ==
    IF size = 0 THEN [h |-> mm_free(h, ptr), p |-> NULL, copied |-> 0]
    ELSE Let([m \in {mm_malloc(h, size)} |->
             IF ptr = NULL THEN [h |-> m.h, p |-> m.p, copied |-> 0]
             ELSE IF m.h.st # "ok" \/ m.p = NULL THEN [h |-> m.h, p |-> NULL, copied |-> 0]
             ELSE realloc_copy(m.h, ptr, size, m.p)])

(***************************************************************************)
(* What the heap checker walks: the blocks in address order, the free      *)
(* lists from their heads.                                                 *)
(***************************************************************************)
RECURSIVE Blocks(_, _)
\* for (bp = heap_listp; GET_SIZE(HDRP(bp)) > 0; bp = NEXT_BLKP(bp))
Blocks(h, bp) ==
    IF ~Valid(h, HDRP(bp)) \/ GET_SIZE(h, HDRP(bp)) = 0 THEN <<>>
    ELSE <<[bp |-> bp, size |-> GET_SIZE(h, HDRP(bp)), alloc |-> GET_ALLOC(h, HDRP(bp))]>>
         \o Blocks(h, NEXT_BLKP(h, bp))

\* the payload addresses of the free blocks of the walk
FreeBlocks(h) ==
    LET b == Blocks(h, h.hl) IN {b[i].bp : i \in {j \in DOMAIN b : b[j].alloc = 0}}

\* the head words: one (A), LIST_NUM (B)
Heads(h) ==
    IF variant = "A" THEN {h.fl} ELSE {h.fl + WSIZE * i : i \in 0..(LIST_NUM - 1)}

\* the first node of a list, 0 when the head word holds 0
First(h, list) ==
    IF ~Valid(h, list) \/ GET(h, list) = 0 THEN 0 ELSE OFF_PTR(h, list)

RECURSIVE list_nodes(_, _, _)
\* the nodes met from bp on by following next offsets until one is 0
list_nodes(h, bp, seen) ==
    IF bp = 0 \/ bp \in seen \/ ~Valid(h, bp) THEN seen
    ELSE IF GET(h, bp) = 0 THEN seen \cup {bp}
    ELSE list_nodes(h, OFF_PTR(h, bp), seen \cup {bp})

RECURSIVE list_cyclic(_, _, _)
\* following next offsets from bp comes back to a node met before
list_cyclic(h, bp, seen) ==
    IF bp = 0 \/ ~Valid(h, bp) THEN FALSE
    ELSE IF bp \in seen THEN TRUE
    ELSE IF GET(h, bp) = 0 THEN FALSE
    ELSE list_cyclic(h, OFF_PTR(h, bp), seen \cup {bp})

\* every node reachable from a head
Reach(h) == UNION {list_nodes(h, First(h, l), {}) : l \in Heads(h)}

\* the first k bytes at address a, as words (the last one cut to k % 4 bytes)
Bytes(h, a, k) ==
    [i \in 1..((k + 3) \div 4) |->
        IF 4 * i <= k THEN GET(h, a + 4 * (i - 1))
        ELSE GET(h, a + 4 * (i - 1)) % (256 ^ (k % 4))]

(***************************************************************************)
(* Bounds of the model                                                     *)
(***************************************************************************)
MaxSteps == 5

Variants == {"A", "B"}

\* the request that exactly fills what is left of the first chunk after one
\* minimum-size block
Fill == InitWords * WSIZE - 2 * DSIZE - (IF variant = "A" THEN DSIZE ELSE WSIZE)

\* request sizes of the client
Sizes == {8, 16, Fill}

\* request sizes of realloc
ReSizes == {16}

\* what the substrate can hold in all: nothing, the preamble only, the first
\* chunk, a second initialisation
Caps(v) ==
    LET pre  == IF v = "A" THEN 6 * WSIZE ELSE 4 * WSIZE + LIST_NUM * WSIZE
        init == pre + WSIZE * (IF v = "A" THEN 2^9 + 2^8 + (2^7 \div WSIZE)
                                          ELSE 2^8 - (2^5 \div WSIZE))
    IN {0, pre, init, 2 * init}

\* what newly obtained memory may hold, word by word
FreshWords == {0, 2}

\* what a caller may store in a payload it owns, from the payload's first word on
Images == {<<0, 0>>, <<0, 0, 0, 0, 36, 0, 24>>}

(***************************************************************************)
(* State                                                                   *)
(***************************************************************************)
Cur == [mem |-> mem, brk |-> brk, hl |-> heap_listp, fl |-> free_listp, st |-> status]

\* the machine after the step
CurP == [mem |-> mem', brk |-> brk', hl |-> heap_listp', fl |-> free_listp', st |-> status']

Commit(h) ==
    /\ mem' = h.mem
    /\ brk' = h.brk
    /\ heap_listp' = h.hl
    /\ free_listp' = h.fl
    /\ status' = h.st

\* the last call: its arguments, its result, and for realloc the size of the
\* request that made p (oldn), the size in p's header (osz) and the bytes of
\* p that must survive (pre), all read before the call
NoCall == [op |-> "none", n |-> 0, p |-> 0, res |-> 0, copied |-> 0, dup |-> FALSE,
           oldn |-> 0, osz |-> 0, pre |-> <<>>]

LivePtrs == {r.p : r \in live}

Init ==
    /\ variant \in Variants
    /\ cap \in Caps(variant)
    /\ fresh \in FreshWords
    /\ mem = [i \in {} |-> 0]
    /\ brk = 0
    /\ heap_listp = 0
    /\ free_listp = 0
    /\ status = "ok"
    /\ live = {}
    /\ last = NoCall
    /\ reinit = FALSE
    /\ steps = 0

Ready == status = "ok" /\ steps < MaxSteps

\* the driver calls mm_init(); reinit records that it did so on a heap whose
\* heap_listp was already set
DoInit ==
    /\ Ready
    /\ \E r \in {mm_init(Cur)} :
          /\ Commit(r.h)
          /\ last' = [NoCall EXCEPT !.op = "init", !.res = r.rc]
    /\ reinit' = (reinit \/ heap_listp # 0)
    /\ steps' = steps + 1
    /\ UNCHANGED <<variant, cap, fresh, live>>

\* p = mm_malloc(n)
DoAlloc(n) ==
    /\ Ready
    /\ \E r \in {mm_malloc(Cur, n)} :
       LET got == r.h.st = "ok" /\ r.p # NULL
       IN /\ Commit(r.h)
          /\ live' = IF got THEN live \cup {[p |-> r.p, n |-> n]} ELSE live
          /\ last' = [NoCall EXCEPT !.op = "alloc", !.n = n,
                                    !.res = IF r.h.st = "ok" THEN r.p ELSE NULL,
                                    !.dup = got /\ r.p \in LivePtrs]
    /\ steps' = steps + 1
    /\ UNCHANGED <<variant, cap, fresh, reinit>>

\* mm_free(p), p a live payload or NULL
DoFree(p) ==
    /\ Ready
    /\ p \in LivePtrs \cup {NULL}
    /\ Commit(mm_free(Cur, p))
    /\ live' = {r \in live : r.p # p}
    /\ last' = [NoCall EXCEPT !.op = "free", !.p = p]
    /\ steps' = steps + 1
    /\ UNCHANGED <<variant, cap, fresh, reinit>>

\* q = mm_realloc(p, n), p a live payload or NULL
DoRealloc(p, n) ==
    /\ Ready
    /\ p \in LivePtrs \cup {NULL}
    /\ \E r \in {mm_realloc(Cur, p, n)} :
       LET got == r.h.st = "ok" /\ r.p # NULL
           rest == {x \in live : x.p # p}
           oldn == CHOOSE k \in {x.n : x \in live \ rest} \cup {0} :
                       (live # rest) => k # 0
           keep == IF n < oldn THEN n ELSE oldn
       IN /\ Commit(r.h)
          /\ live' = IF r.h.st # "ok" THEN live
                     ELSE IF got THEN rest \cup {[p |-> r.p, n |-> n]}
                     ELSE IF n = 0 THEN rest
                     ELSE live
          /\ last' = [NoCall EXCEPT !.op = "realloc", !.n = n, !.p = p,
                                    !.res = IF r.h.st = "ok" THEN r.p ELSE NULL,
                                    !.copied = r.copied,
                                    !.oldn = oldn,
                                    !.osz = GET_SIZE(Cur, HDRP(p)),
                                    !.pre = Bytes(Cur, p, keep),
                                    !.dup = got /\ r.p \in {x.p : x \in rest}]
    /\ steps' = steps + 1
    /\ UNCHANGED <<variant, cap, fresh, reinit>>

\* p = mm_malloc(n); mm_free(p), the allocation not extending the heap
DoAllocFree(n) ==
    /\ status = "ok" /\ steps + 2 <= MaxSteps
    /\ heap_listp # 0
    /\ \E r \in {mm_malloc(Cur, n)} :
          /\ r.h.st = "ok" /\ r.p # NULL /\ r.h.brk = brk
          /\ r.p \notin LivePtrs
          /\ Commit(mm_free(r.h, r.p))
          /\ last' = [NoCall EXCEPT !.op = "allocfree", !.n = n, !.res = r.p]
    /\ steps' = steps + 2
    /\ UNCHANGED <<variant, cap, fresh, live, reinit>>

\* the words of img stored from address p on
Store(h, p, img) ==
    [h EXCEPT !.mem = [i \in DOMAIN h.mem |->
        LET k == i - ((p - HeapLo) \div 4)
        IN IF k >= 0 /\ k < Len(img) THEN img[k + 1] ELSE h.mem[i]]]

\* the caller stores img in the live payload p, which is large enough for it
DoStore(p, img) ==
    /\ Ready
    /\ \E r \in live : r.p = p /\ WSIZE * Len(img) <= r.n
    /\ Commit(Store(Cur, p, img))
    /\ last' = [NoCall EXCEPT !.op = "store", !.p = p]
    /\ steps' = steps + 1
    /\ UNCHANGED <<variant, cap, fresh, live, reinit>>

Next ==
    \/ DoInit
    \/ \E n \in Sizes : DoAlloc(n)
    \/ \E p \in LivePtrs : DoFree(p)
    \/ \E p \in LivePtrs, n \in ReSizes : DoRealloc(p, n)
    \/ \E n \in Sizes : DoAllocFree(n)

Spec == Init /\ [][Next]_vars

\* the calls together with the caller's stores into its payloads
NextW ==
    \/ \E n \in Sizes : DoAlloc(n)
    \/ \E p \in LivePtrs : DoFree(p)
    \/ \E p \in LivePtrs, img \in Images : DoStore(p, img)

SpecW == Init /\ [][NextW]_vars

(***************************************************************************)
(* Claims                                                                  *)
(***************************************************************************)

\* C1: after init (called once at most) and any sequence of alloc, realloc and free calls on live
\* payloads, the payload ranges of any two live payloads are disjoint, and
\* alloc and realloc never return a pointer that is still allocated to a caller.
C1_LivePayloadsDisjoint ==
    ~reinit =>
        /\ ~last.dup
        /\ \A r1, r2 \in live :
              r1 # r2 => (r1.p + r1.n <= r2.p \/ r2.p + r2.n <= r1.p)

\* C2: every non-null pointer returned by alloc(n), after any sequence of
\* operations, is a multiple of 8 (the substrate's first address, HeapLo, is one).
C2_AllocAligned ==
    (~reinit /\ last.op = "alloc" /\ status = "ok" /\ last.res # NULL) =>
        last.res % DSIZE = 0

\* C3: a non-null result of alloc(n), n >= 1, addresses an allocated block
\* with at least n usable bytes: block size - 8 >= n in the single-list
\* variant, block size - 4 >= n in the segregated variant.
C3_AllocHoldsRequest ==
    (~reinit /\ last.op = "alloc" /\ status = "ok" /\ last.res # NULL /\ last.n >= 1) =>
        /\ GET_ALLOC(Cur, HDRP(last.res)) = 1
        /\ GET_SIZE(Cur, HDRP(last.res)) - (IF variant = "A" THEN DSIZE ELSE WSIZE) >= last.n

\* C4: every alloc, free and realloc call on a reachable heap terminates: no
\* free list reachable from a head contains a cycle or a self-link.
C4_CallsTerminate ==
    ~reinit =>
        /\ status # "hang"
        /\ status = "ok" => \A l \in Heads(Cur) : ~list_cyclic(Cur, First(Cur, l), {})

\* the bytes extend_heap asks the substrate for on behalf of alloc(n)
ExtBytes(n) ==
    LET words == MAX(AdjSize(n), CHUNKSIZE) \div WSIZE
    IN IF words % 2 = 1 THEN (words + 1) * WSIZE ELSE words * WSIZE

\* no free block fits alloc(n) and the substrate rejects the extend request
NoFitRejected(n) ==
    /\ heap_listp # 0
    /\ find_fit(Cur, AdjSize(n)).k = "null"
    /\ mem_sbrk(Cur, ExtBytes(n)).p = -1

C6_FailedInitReturnsNull ==
    (/\ steps = 1 /\ last.op = "alloc" /\ last.n > 0
     /\ cap < PreambleBytes + WSIZE * InitWords)
    => (status = "ok" /\ last.res = NULL)

\* C7: a successful realloc(p, n), n > 0, of a live payload requested with
\* old_n bytes returns a live payload whose bytes 0..min(n, old_n)-1 are
\* those p held before the call, and p's block is no longer allocated.
C7_ReallocKeepsBytes ==
    (~reinit /\ last.op = "realloc" /\ status = "ok" /\ last.res # NULL /\ last.n > 0) =>
        /\ last.res \in LivePtrs
        /\ Bytes(Cur, last.res, IF last.n < last.oldn THEN last.n ELSE last.oldn) = last.pre
        /\ GET_ALLOC(Cur, HDRP(last.p)) = 0

\* C8: realloc(p, size), p non-null and size > 0, copies exactly
\* min(size, old_size - header_overhead) bytes, old_size the size in p's
\* header and header_overhead 8 (single list) or 4 (segregated).
C8_ReallocCopyLength ==
    (~reinit /\ last.op = "realloc" /\ status = "ok" /\ last.res # NULL /\ last.n > 0) =>
        last.copied = (LET pay == last.osz - (IF variant = "A" THEN DSIZE ELSE WSIZE)
                       IN IF last.n < pay THEN last.n ELSE pay)

\* C9: p = alloc(n); free(p), the alloc not extending the heap, gives the
\* same sequence of (size, allocated) blocks and the same set of blocks
\* reachable from the list heads as before, and every reachable block is a
\* free block of the heap.
C9_AllocFreeRoundTrip ==
    [][(steps' # steps /\ ~reinit /\ last'.op = "allocfree" /\ status' = "ok")
       => (/\ Blocks(CurP, heap_listp') = Blocks(Cur, heap_listp)
           /\ Reach(CurP) = Reach(Cur)
           /\ Reach(CurP) \subseteq FreeBlocks(CurP))]_vars

checkblock(h, bp) ==
    (IF bp % 8 # 0 THEN {"not doubleword aligned"} ELSE {})
    \cup (IF GET(h, HDRP(bp)) # GET(h, FTRP(h, bp))
          THEN {"header does not match footer"} ELSE {})
    \cup (IF GET_ALLOC(h, HDRP(bp)) # 0 /\ GET_ALLOC(h, HDRP(NEXT_BLKP(h, bp))) # 0
          THEN {"not coalesced"} ELSE {})
    \cup (IF GET_SIZE(h, bp) < DSIZE * 2 THEN {"minimum block size"} ELSE {})

\* the bp at which the walk of the blocks from bp on stops
RECURSIVE WalkEnd(_, _)
WalkEnd(h, bp) ==
    IF ~Valid(h, HDRP(bp)) \/ GET_SIZE(h, HDRP(bp)) = 0 THEN bp
    ELSE WalkEnd(h, NEXT_BLKP(h, bp))

mm_checkheap(h) ==
    (IF GET_SIZE(h, HDRP(h.hl)) # DSIZE \/ GET_ALLOC(h, HDRP(h.hl)) = 0
     THEN {"Bad prologue header"} ELSE {})
    \cup (IF GET_SIZE(h, FTRP(h, h.hl)) # DSIZE \/ GET_ALLOC(h, FTRP(h, h.hl)) = 0
          THEN {"Bad prologue footer"} ELSE {})
    \cup checkblock(h, h.hl)
    \cup UNION {checkblock(h, b.bp) : b \in {Blocks(h, h.hl)[i] : i \in DOMAIN Blocks(h, h.hl)}}
    \cup (IF GET_SIZE(h, HDRP(WalkEnd(h, h.hl))) # 0 \/ GET_ALLOC(h, HDRP(WalkEnd(h, h.hl))) = 0
          THEN {"Bad epilogue header"} ELSE {})

(***************************************************************************)
(* The invariants of the data model, as predicates on a machine h          *)
(***************************************************************************)
\* the nodes of the list whose head word is list
NodesOf(h, list) == list_nodes(h, First(h, list), {})

\* a block is on a list iff it is a free block of the walk; no list comes back
\* on itself, no block is on two lists, and (B) a block is on the list of the
\* class of its size
ListsMatchFree(h) ==
    /\ Reach(h) = FreeBlocks(h)
    /\ \A l \in Heads(h) : ~list_cyclic(h, First(h, l), {})
    /\ \A l1, l2 \in Heads(h) : l1 # l2 => NodesOf(h, l1) \cap NodesOf(h, l2) = {}
    /\ \A l \in Heads(h) : \A a \in NodesOf(h, l) : ListHead(h, a) = l

\* no two blocks that follow each other in the walk are both free
Coalesced(h) ==
    LET b == Blocks(h, h.hl)
    IN \A i \in 1..(Len(b) - 1) : ~(b[i].alloc = 0 /\ b[i + 1].alloc = 0)

\* next and prev offsets of the nodes on the lists agree
LinksSymmetric(h) ==
    \A l \in Heads(h) :
        /\ First(h, l) # 0 => GET(h, First(h, l) + WSIZE) = 0
        /\ \A a \in NodesOf(h, l) :
              /\ GET(h, a) # 0 => GET(h, OFF_PTR(h, a) + WSIZE) = a - h.hl
              /\ GET(h, a + WSIZE) # 0 => GET(h, OFF_PTR(h, a + WSIZE)) = a - h.hl

\* variant B: bit 1 of a header is the allocated bit of the block before it
PrevBitsRight(h) ==
    LET b == Blocks(h, h.hl)
    IN /\ \A i \in 2..Len(b) : Bit1(GET(h, HDRP(b[i].bp))) = b[i - 1].alloc
       /\ Len(b) > 0 => Bit1(GET(h, HDRP(WalkEnd(h, h.hl)))) = b[Len(b)].alloc

\* the footer of a free block (A: of every block) has the header's size and
\* allocated bit
TagsAgree(h) ==
    LET b == Blocks(h, h.hl)
    IN \A i \in DOMAIN b :
          (b[i].alloc = 0 \/ variant = "A") =>
              /\ GET_SIZE(h, b[i].bp + b[i].size - DSIZE) = b[i].size
              /\ GET_ALLOC(h, b[i].bp + b[i].size - DSIZE) = b[i].alloc

\* the blocks after the prologue lead to the epilogue header, the last word
\* of the heap
Tiled(h) ==
    LET first == NEXT_BLKP(h, h.hl)
        b     == Blocks(h, first)
        end   == WalkEnd(h, first)
    IN /\ \A i \in DOMAIN b : b[i].size % DSIZE = 0 /\ b[i].size >= 2 * DSIZE
       /\ HDRP(end) = HeapLo + h.brk - WSIZE
       /\ GET_SIZE(h, HDRP(end)) = 0
       /\ GET_ALLOC(h, HDRP(end)) = 1

\* init has run once and obtained its first chunk, and no call has faulted
\* or hung
Settled ==
    /\ ~reinit /\ status = "ok" /\ heap_listp # 0 /\ free_listp # 0
    /\ brk >= PreambleBytes + WSIZE * InitWords

\* C11: on a heap reached by init and alloc/free calls on which every
\* invariant of the data model holds, the heap checker prints no error line.
C11_CheckerSilent ==
    (/\ Settled
     /\ ListsMatchFree(Cur) /\ Coalesced(Cur) /\ LinksSymmetric(Cur)
     /\ TagsAgree(Cur) /\ Tiled(Cur)
     /\ variant = "B" => PrevBitsRight(Cur))
    => mm_checkheap(Cur) = {}

\* C12: across an alloc, free or realloc call, the bytes of every payload
\* that is live before and after the call are unchanged.
C12_LivePayloadsUntouched ==
    [][(/\ steps' # steps /\ ~reinit /\ status' = "ok"
        /\ last'.op \in {"alloc", "free", "realloc"})
       => \A r \in live \cap live' : Bytes(CurP, r.p, r.n) = Bytes(Cur, r.p, r.n)]_vars

\* requests near the top of size_t: -1 is 2^w - 1, -9 is 2^w - 9
TopSizes == {0 - 1, 0 - 9}

\* request sizes of the client, the largest values of size_t among them
SizesN == {8} \cup TopSizes

NextN ==
    \/ \E n \in SizesN : DoAlloc(n)
    \/ \E p \in LivePtrs : DoFree(p)

SpecN == Init /\ [][NextN]_vars

\* C13: for every n >= 1 up to the largest value of size_t, the adjusted size
\* alloc(n) computes is at least 16 and at least n, and a non-null result is a
\* block whose size is at least n plus the header overhead.
C13_AdjustedSizeNoWrap ==
    (last.op = "alloc" /\ last.n # 0 /\ status = "ok") =>
        /\ ~ULT(AdjSize(last.n), 2 * DSIZE)
        /\ ~ULT(AdjSize(last.n), last.n)
        /\ last.res # NULL =>
              /\ last.n > 0
              /\ GET_SIZE(Cur, HDRP(last.res))
                    >= last.n + (IF variant = "A" THEN DSIZE ELSE WSIZE)

\* C14: after init and any sequence of alloc/free/realloc calls, a block is
\* reachable from a list head iff it is a physical block with allocated bit 0,
\* from exactly one head and once, in B the head of the class of its size.
C14_ListsHoldFreeBlocks == Settled => ListsMatchFree(Cur)

\* C15: after init and every completed call, no two physically adjacent
\* blocks both have allocated bit 0.
C15_NoAdjacentFree == Settled => Coalesced(Cur)

\* C16: after any sequence of calls, the links of every list are symmetric
\* and the first node of a list has prev offset 0.
C16_LinksSymmetric == Settled => LinksSymmetric(Cur)

\* C17: segregated variant: after init and every completed call, bit 1 of
\* every header, the epilogue's included, is the allocated bit of the block
\* before it, whatever the newly obtained memory held.
C17_PrevAllocBit == (Settled /\ variant = "B") => PrevBitsRight(Cur)

\* C18: after any sequence of calls, the footer of every free block (single
\* list: of every block) has the size and allocated bit of its header.
C18_FooterMatchesHeader == Settled => TagsAgree(Cur)

\* C19: after init and any sequence of calls, the walk from the first block
\* meets only sizes that are multiples of 8 and >= 16 and ends at the
\* epilogue header (size 0, allocated), the last 4 bytes of the heap.
C19_BlocksTileHeap == Settled => Tiled(Cur)

\* free(p) is about to run coalesce case 2: left neighbour allocated, right free
Case2Ahead(p) ==
    /\ heap_listp # 0
    /\ (IF variant = "A" THEN GET_ALLOC(Cur, FTRP(Cur, PREV_BLKP(Cur, p)))
                         ELSE GET_PREV_ALLOC(Cur, p)) # 0
    /\ GET_ALLOC(Cur, HDRP(NEXT_BLKP(Cur, p))) = 0

\* C20: when free(p) runs coalesce case 2, afterwards the right neighbour's
\* former block pointer is reachable from no list head, and the merged block
\* at p, of the two sizes together, is reachable from exactly one head.
C20_Case2UnlinksRight ==
    [][(/\ steps' # steps /\ ~reinit /\ status' = "ok"
        /\ last'.op = "free" /\ last'.p # NULL
        /\ ListsMatchFree(Cur)
        /\ Case2Ahead(last'.p))
       => (/\ NEXT_BLKP(Cur, last'.p) \notin Reach(CurP)
           /\ GET_SIZE(CurP, HDRP(last'.p))
                 = GET_SIZE(Cur, HDRP(last'.p)) + GET_SIZE(Cur, HDRP(NEXT_BLKP(Cur, last'.p)))
           /\ Cardinality({l \in Heads(CurP) : last'.p \in NodesOf(CurP, l)}) = 1)]_vars

(***************************************************************************)
(* The size computations on their own: the argument is drawn first, then   *)
(* the function is applied to it                                           *)
(***************************************************************************)
\* block sizes around every bound of the class table
ClassSizes ==
    {s \in {AllBounds[i] + d : i \in 1..Len(AllBounds), d \in {0 - 8, 0, 8}} : s >= 2 * DSIZE}

\* largest request whose adjusted size is computed
MaxReq == 40

InitF ==
    /\ variant \in Variants
    /\ cap = 0
    /\ fresh = 0
    /\ mem = [i \in {} |-> 0]
    /\ brk = 0
    /\ heap_listp = 0
    /\ free_listp = 0
    /\ status = "ok"
    /\ live = {}
    /\ last \in {[NoCall EXCEPT !.n = n] : n \in (1..MaxReq) \cup ClassSizes}
    /\ reinit = FALSE
    /\ steps = 0

\* asize as mm_malloc computes it from the request last.n
DoAdjust ==
    /\ steps = 0 /\ last.n <= MaxReq
    /\ last' = [last EXCEPT !.op = "adjust", !.res = AdjSize(last.n)]
    /\ steps' = 1
    /\ UNCHANGED <<variant, cap, fresh, mem, brk, heap_listp, free_listp, status, live, reinit>>

\* list_entry(size) for the block size last.n
DoListEntry ==
    /\ steps = 0 /\ variant = "B" /\ last.n \in ClassSizes
    /\ last' = [last EXCEPT !.op = "list_entry", !.res = list_entry(last.n)]
    /\ steps' = 1
    /\ UNCHANGED <<variant, cap, fresh, mem, brk, heap_listp, free_listp, status, live, reinit>>

NextF == DoAdjust \/ DoListEntry

SpecF == InitF /\ [][NextF]_vars

\* C24: segregated variant: the class index of a block size s is the smallest
\* index whose upper bound in the table 16, 24, 48, 128, ..., 40000, 32768,
\* 65536, 131072, 262144, 524288, 1048576, infinity is >= s.
C24_SmallestClass ==
    last.op = "list_entry" =>
        /\ last.res \in 0..(LIST_NUM - 1)
        /\ last.res < LIST_NUM - 1 => last.n <= AllBounds[last.res + 1]
        /\ \A i \in 0..(last.res - 1) : last.n > AllBounds[i + 1]

\* C26 as stated: single-list variant: the adjusted size is 16 for n <= 8
\* and 8 * ceil((n + 16) / 8) for n > 8 (n = 9 gives 32).
C26_AdjustedSizeSixteen ==
    (last.op = "adjust" /\ variant = "A" /\ last.n >= 1) =>
        last.res = IF last.n <= DSIZE THEN 2 * DSIZE
                   ELSE DSIZE * ((last.n + 2 * DSIZE + (DSIZE - 1)) \div DSIZE)

\* C26, amended: single-list variant: the adjusted size is 16 for n <= 8 and
\* 8 * ceil((n + 8) / 8) for n > 8: the request, one doubleword of overhead,
\* rounded up to a multiple of 8 (n = 9 gives 24).
C26_AdjustedSizeEight ==
    (last.op = "adjust" /\ variant = "A" /\ last.n >= 1) =>
        /\ last.res % DSIZE = 0
        /\ last.n <= DSIZE => last.res = 2 * DSIZE
        /\ last.n > DSIZE => (last.res >= last.n + DSIZE /\ last.res < last.n + 2 * DSIZE)

\* the adjusted size of a request of 9 bytes has been computed
C26_Witness == last.op = "adjust" /\ variant = "A" /\ last.n = 9 /\ last.res = 24

\* C25: after a successful init the heap holds exactly one block besides the
\* sentinels, a free block of exactly CHUNKSIZE bytes (896 single list, 224
\* segregated), the only member of the free lists.
C25_InitialChunk ==
    (last.op = "init" /\ last.res = 0 /\ ~reinit /\ status = "ok") =>
        LET first == NEXT_BLKP(Cur, heap_listp)
        IN /\ Blocks(Cur, first) = <<[bp |-> first, size |-> CHUNKSIZE, alloc |-> 0]>>
           /\ Reach(Cur) = {first}

\* C28: the checker reports a coalescing error for a block and its successor
\* exactly when both are free, and its minimum-size error exactly when the
\* size in the block's header is below 16.
C28_CheckerTestsFreePairs ==
    Settled =>
        LET b == Blocks(Cur, NEXT_BLKP(Cur, heap_listp))
        IN /\ \A i \in 1..(Len(b) - 1) :
                 ("not coalesced" \in checkblock(Cur, b[i].bp))
                     <=> (b[i].alloc = 0 /\ b[i + 1].alloc = 0)
           /\ \A i \in DOMAIN b :
                 ("minimum block size" \in checkblock(Cur, b[i].bp))
                     <=> (b[i].size < 2 * DSIZE)

\* alloc(n) is about to place the free block bp that find_fit returns
PlaceAhead(n, bp) ==
    /\ heap_listp # 0
    /\ find_fit(Cur, AdjSize(n)).k = "ptr"
    /\ find_fit(Cur, AdjSize(n)).p = bp
    /\ bp \in FreeBlocks(Cur)
    /\ GET_SIZE(Cur, HDRP(bp)) >= AdjSize(n)

\* C21: place(bp, asize) on a free block of size csize >= asize unlinks bp;
\* if csize - asize >= 16 it leaves an allocated block of asize bytes at bp
\* followed by a free block of csize - asize bytes on the list for its size,
\* otherwise the whole block is allocated and no block is created; bp is on
\* no list afterwards.
C21_PlaceSplitsOrTakes ==
    [][(/\ steps' # steps /\ ~reinit /\ status' = "ok"
        /\ last'.op = "alloc" /\ last'.res # NULL
        /\ PlaceAhead(last'.n, last'.res))
       => LET bp    == last'.res
              asize == AdjSize(last'.n)
              csize == GET_SIZE(Cur, HDRP(bp))
              nb    == bp + asize
          IN /\ bp \notin Reach(CurP)
             /\ GET_ALLOC(CurP, HDRP(bp)) = 1
             /\ csize - asize >= 2 * DSIZE =>
                   /\ GET_SIZE(CurP, HDRP(bp)) = asize
                   /\ GET_SIZE(CurP, HDRP(nb)) = csize - asize
                   /\ GET_ALLOC(CurP, HDRP(nb)) = 0
                   /\ nb \in NodesOf(CurP, ListHead(CurP, nb))
             /\ csize - asize < 2 * DSIZE =>
                   /\ GET_SIZE(CurP, HDRP(bp)) = csize
                   /\ Len(Blocks(CurP, heap_listp')) = Len(Blocks(Cur, heap_listp))]_vars

RECURSIVE list_seq(_, _, _)
\* the nodes met from bp on, in the order of the walk
list_seq(h, bp, seen) ==
    IF bp = 0 \/ bp \in seen \/ ~Valid(h, bp) THEN <<>>
    ELSE IF GET(h, bp) = 0 THEN <<bp>>
    ELSE <<bp>> \o list_seq(h, OFF_PTR(h, bp), seen \cup {bp})

RECURSIVE SearchOrder(_, _)
\* the nodes in the order find_fit visits them, from class entry on (A: the list)
SearchOrder(h, entry) ==
    IF variant = "A" THEN list_seq(h, First(h, h.fl), {})
    ELSE IF entry >= LIST_NUM THEN <<>>
    ELSE list_seq(h, First(h, h.fl + WSIZE * entry), {}) \o SearchOrder(h, entry + 1)

\* the adjusted sizes find_fit is asked for
FitSizes == {AdjSize(n) : n \in Sizes}

\* C23: find_fit(asize) returns null only if no free block of size >= asize
\* exists in the heap, and otherwise the first block in search order that has
\* size >= asize, which is a free block.
C23_FirstFitComplete ==
    Settled =>
        \A asize \in FitSizes :
            LET r   == find_fit(Cur, asize)
                b   == Blocks(Cur, heap_listp)
                ord == SearchOrder(Cur, list_entry(asize))
                big == {i \in DOMAIN ord : GET_SIZE(Cur, HDRP(ord[i])) >= asize}
            IN /\ r.k \in {"ptr", "null"}
               /\ r.k = "null" => ~\E i \in DOMAIN b : b[i].alloc = 0 /\ b[i].size >= asize
               /\ r.k = "ptr" =>
                     /\ r.p \in FreeBlocks(Cur)
                     /\ GET_SIZE(Cur, HDRP(r.p)) >= asize
                     /\ big # {} /\ r.p = ord[CHOOSE i \in big : \A j \in big : i <= j]

(***************************************************************************)
(* Two equal requests freed in reverse order                               *)
(***************************************************************************)
\* the request size of the scenario
SizesS == {200}

NextS ==
    \/ DoInit
    \/ \E n \in SizesS : DoAlloc(n)
    \/ \E p \in LivePtrs : DoFree(p)

SpecS == Init /\ [][NextS]_vars

\* p1 = alloc(200); p2 = alloc(200); free(p2) have been done on a fresh heap
\* of variant B and free(p1) is the call being made
FreeFirstAhead(p1) ==
    /\ variant = "B" /\ Settled
    /\ p1 = NEXT_BLKP(Cur, heap_listp)
    /\ live = {[p |-> p1, n |-> 200]}
    /\ last.op = "free" /\ last.p = p1 + AdjSize(200)
    /\ steps' # steps /\ last'.op = "free" /\ last'.p = p1

\* C22 as stated: after init, p1 = alloc(200), p2 = alloc(200), free(p2),
\* free(p1) both freed blocks are members of class 4 and the head of class 4
\* identifies p1.
C22_BothInClassFour ==
    [][\A p1 \in LivePtrs : FreeFirstAhead(p1) =>
          /\ {p1, p1 + AdjSize(200)} \subseteq NodesOf(CurP, free_listp' + WSIZE * 4)
          /\ First(CurP, free_listp' + WSIZE * 4) = p1]_vars

\* C22: after init, p1 = alloc(200), p2 = alloc(200), free(p2), free(p1) the
\* two blocks and the rest of the first chunk are one free block at p1; class 4
\* is empty and the head of class 6 identifies p1.
C22_MergedInClassSix ==
    [][\A p1 \in LivePtrs : FreeFirstAhead(p1) =>
          /\ Blocks(CurP, p1) = <<[bp |-> p1, size |-> InitWords * WSIZE, alloc |-> 0]>>
          /\ NodesOf(CurP, free_listp' + WSIZE * 4) = {}
          /\ First(CurP, free_listp' + WSIZE * 6) = p1]_vars

C22_Witness ==
    /\ variant = "B" /\ Settled /\ steps = 5 /\ live = {}
    /\ last.op = "free" /\ last.p = NEXT_BLKP(Cur, heap_listp)
    /\ last.p + AdjSize(200) \in NodesOf(Cur, free_listp + WSIZE * 6)
    /\ First(Cur, free_listp + WSIZE * 6) = last.p
    /\ GET_SIZE(Cur, HDRP(last.p)) = InitWords * WSIZE

(***************************************************************************)
(* freelist_delete on well-formed lists                                    *)
(***************************************************************************)
\* the four tests of freelist_delete
only_node(h, bp)   == GET(h, bp) = 0 /\ GET(h, bp + WSIZE) = 0
last_node(h, bp)   == GET(h, bp) = 0 /\ GET(h, bp + WSIZE) # 0
first_node(h, bp)  == GET(h, bp) # 0 /\ GET(h, bp + WSIZE) = 0
middle_node(h, bp) == GET(h, bp) # 0 /\ GET(h, bp + WSIZE) # 0

\* the four bodies of freelist_delete
delete_only(h, list, bp) ==
    PUT(h, list, 0)

delete_last(h, list, bp) ==
    PUT(h, OFF_PTR(h, bp + WSIZE), 0)

delete_first(h, list, bp) ==
    Let([t \in {PUT(h, OFF_PTR(h, bp) + WSIZE, 0)} |->
        PUT(t, list, GET(t, bp))])

delete_middle(h, list, bp) ==
    Let([t \in {PUT(h, OFF_PTR(h, bp) + WSIZE, GET(h, bp + WSIZE))} |->
        PUT(t, OFF_PTR(t, bp + WSIZE), GET(t, bp))])

\* the cases whose body freelist_delete executes, each test made on the heap
\* the statements before it have left
DeleteCases(h, bp) ==
    Let([list \in {ListHead(h, bp)} |->
    Let([h0 \in {Chk(h, (IF variant = "A" THEN {} ELSE {HDRP(bp)}) \cup {bp, bp + WSIZE})} |->
    Let([s1 \in {IF only_node(h0, bp) THEN delete_only(h0, list, bp) ELSE h0} |->
    Let([s2 \in {IF last_node(s1, bp) THEN delete_last(s1, list, bp) ELSE s1} |->
    Let([s3 \in {IF first_node(s2, bp) THEN delete_first(s2, list, bp) ELSE s2} |->
        (IF only_node(h0, bp) THEN {1} ELSE {})
        \cup (IF last_node(s1, bp) THEN {2} ELSE {})
        \cup (IF first_node(s2, bp) THEN {3} ELSE {})
        \cup (IF middle_node(s3, bp) THEN {4} ELSE {})])])])])])

\* the same four cases as mutually exclusive branches
freelist_delete_excl(h, bp) ==
    Let([list \in {ListHead(h, bp)} |->
    Let([h0 \in {Chk(h, (IF variant = "A" THEN {} ELSE {HDRP(bp)}) \cup {bp, bp + WSIZE})} |->
        IF only_node(h0, bp) THEN delete_only(h0, list, bp)
        ELSE IF last_node(h0, bp) THEN delete_last(h0, list, bp)
        ELSE IF first_node(h0, bp) THEN delete_first(h0, list, bp)
        ELSE delete_middle(h0, list, bp)])])

\* symmetric links, head with prev offset 0, no cycle, every node on one list,
\* the list of its size
WellLinked(h) ==
    /\ LinksSymmetric(h)
    /\ \A l \in Heads(h) : ~list_cyclic(h, First(h, l), {})
    /\ \A l1, l2 \in Heads(h) : l1 # l2 => NodesOf(h, l1) \cap NodesOf(h, l2) = {}
    /\ \A l \in Heads(h) : \A a \in NodesOf(h, l) : ListHead(h, a) = l

RECURSIVE Without(_, _)
\* the sequence s with its entries equal to x left out
Without(s, x) ==
    IF s = <<>> THEN <<>>
    ELSE (IF Head(s) = x THEN <<>> ELSE <<Head(s)>>) \o Without(Tail(s), x)

\* the number of minimum-size blocks the harness allocates, and the ones among
\* them it may free: never two neighbours, never the last
Held == 6
Freed == {1, 3, 5}
MaxDeletes == 2

\* the orders in which the harness frees
Orders ==
    {o \in UNION {[1..k -> Freed] : k \in 0..Cardinality(Freed)} :
        \A i, j \in DOMAIN o : i # j => o[i] # o[j]}

RECURSIVE AllocN(_, _)
\* k calls of mm_malloc(8): the heap and the pointers returned
AllocN(h, k) ==
    IF k = 0 THEN [h |-> h, ps |-> <<>>]
    ELSE Let([a \in {AllocN(h, k - 1)} |->
         Let([r \in {mm_malloc(a.h, DSIZE)} |->
             [h |-> r.h, ps |-> Append(a.ps, r.p)]])])

RECURSIVE FreeAll(_, _)
\* mm_free of the pointers of ps, in order
FreeAll(h, ps) ==
    IF ps = <<>> THEN h ELSE FreeAll(mm_free(h, Head(ps)), Tail(ps))

InitD ==
    /\ variant \in Variants
    /\ cap \in {c \in Caps(variant) : c >= PreambleBytes + WSIZE * InitWords}
    /\ fresh \in FreshWords
    /\ mem = [i \in {} |-> 0]
    /\ brk = 0
    /\ heap_listp = 0
    /\ free_listp = 0
    /\ status = "ok"
    /\ live = {}
    /\ last = NoCall
    /\ reinit = FALSE
    /\ steps = 0

\* Held calls of mm_malloc(8) on the empty heap, then mm_free of the blocks of
\* order o
DoPrepare(o) ==
    /\ status = "ok" /\ steps = 0
    /\ \E a \in {AllocN(Cur, Held)} :
          /\ Commit(FreeAll(a.h, [i \in DOMAIN o |-> a.ps[o[i]]]))
          /\ live' = {[p |-> a.ps[i], n |-> DSIZE] : i \in (1..Held) \ {o[k] : k \in DOMAIN o}}
    /\ last' = [NoCall EXCEPT !.op = "prepare"]
    /\ steps' = 1
    /\ UNCHANGED <<variant, cap, fresh, reinit>>

\* freelist_delete(p), p a node of a list; res is the number of case bodies run
DoDelete(p) ==
    /\ status = "ok" /\ steps \in 1..MaxDeletes
    /\ p \in Reach(Cur)
    /\ Commit(freelist_delete(Cur, p))
    /\ last' = [NoCall EXCEPT !.op = "delete", !.p = p,
                              !.res = Cardinality(DeleteCases(Cur, p))]
    /\ steps' = steps + 1
    /\ UNCHANGED <<variant, cap, fresh, live, reinit>>

NextD ==
    \/ \E o \in Orders : DoPrepare(o)
    \/ \E p \in Reach(Cur) : DoDelete(p)

SpecD == InitD /\ [][NextD]_vars

\* C27: on a well-formed doubly-linked free list (symmetric links, acyclic,
\* head with prev offset 0) freelist_delete of a member bp, with its four
\* independent if statements, executes the body of exactly one case and leaves
\* the heap an implementation with mutually exclusive branches leaves: bp is
\* removed, the other members keep their order, the other lists are untouched
\* and the links stay symmetric.
C27_DeleteAsExclusive ==
    [][(steps' # steps /\ last'.op = "delete" /\ WellLinked(Cur))
       => LET bp   == last'.p
              list == ListHead(Cur, bp)
          IN /\ last'.res = 1
             /\ CurP = freelist_delete_excl(Cur, bp)
             /\ list_seq(CurP, First(CurP, list), {})
                   = Without(list_seq(Cur, First(Cur, list), {}), bp)
             /\ \A l \in Heads(Cur) \ {list} :
                   list_seq(CurP, First(CurP, l), {}) = list_seq(Cur, First(Cur, l), {})
             /\ bp \notin Reach(CurP)
             /\ WellLinked(CurP)]_vars

\* a middle node has been deleted from a well-formed list of three nodes or more
C27_Witness ==
    /\ last.op = "delete" /\ last.res = 1 /\ steps = 2 /\ status = "ok"
    /\ WellLinked(Cur)
    /\ last.p \notin Reach(Cur)
    /\ GET(Cur, last.p) # 0 /\ GET(Cur, last.p + WSIZE) # 0
    /\ GET(Cur, OFF_PTR(Cur, last.p) + WSIZE) = GET(Cur, last.p + WSIZE)
    /\ GET(Cur, OFF_PTR(Cur, last.p + WSIZE)) = GET(Cur, last.p)

====
